---- MODULE Spec2Model ----
(***************************************************************************)
(* Model of the document-extraction backend (src/src/index.ts) and of the  *)
(* ExtractedData mongoose model (src/unnamed/part_000).                    *)
(*                                                                         *)
(* Strings that the code inspects character by character (route and query *)
(* parameters handed to Number()) are sequences of one-character strings.  *)
(* JavaScript numbers are records [t, v]: t is "number", "nan" or "null",  *)
(* v is the value in units of 1/Unit, so that fractional pages such as 1.5 *)
(* are distinct from 1 and 2.                                              *)
(***************************************************************************)
EXTENDS Integers, Sequences, FiniteSets, TLC

VARIABLES
  NODE_ENV,   \* process.env.NODE_ENV, fixed at process start
  store,      \* the ExtractedData collection, in insertion order
  nextOid,    \* next ObjectId the driver hands to `new ExtractedData`
  now,        \* the wall clock (Date.now) as seen by the last save() call
  req,        \* per request: position of its handler and the handler's locals
  received,   \* the HTTP request taken up by the last step (or none)
  resp,       \* the HTTP response sent by the last step (or none)
  fnIn,       \* input of the pure-function specification
  fnOut       \* its result

vars == <<NODE_ENV, store, nextOid, now, req, received, resp, fnIn, fnOut>>

\* Number of extraction requests a behaviour handles (they may overlap).
MaxReq == 2
\* Longest parameter string given to Number() in the pure-function specification.
MaxLen == 3

Requests == 1..MaxReq

(***************************************************************************)
(* Number(): string to JavaScript number                                   *)
(***************************************************************************)
Alphabet == {"0", "1", "2", "3", "-", ".", "a"}
DigitChars == {"0", "1", "2", "3", "4", "5", "6", "7", "8", "9"}

RECURSIVE Pow10(_)
Pow10(n) == IF n = 0 THEN 1 ELSE 10 * Pow10(n - 1)

\* One, in the fixed-point representation of numbers.
Unit == Pow10(MaxLen)

DigitVal(c) ==
  CASE c = "0" -> 0 [] c = "1" -> 1 [] c = "2" -> 2 [] c = "3" -> 3 [] c = "4" -> 4
    [] c = "5" -> 5 [] c = "6" -> 6 [] c = "7" -> 7 [] c = "8" -> 8 [] c = "9" -> 9

RECURSIVE DigitsVal(_)
DigitsVal(s) ==
  IF s = <<>> THEN 0
  ELSE 10 * DigitsVal(SubSeq(s, 1, Len(s) - 1)) + DigitVal(s[Len(s)])

NaN == [t |-> "nan", v |-> 0]
Null == [t |-> "null", v |-> 0]
Num(k) == [t |-> "number", v |-> k * Unit]

\* Number(s) for a string s: an optional sign, digits with at most one
\* decimal point and at least one digit; the empty string is 0; anything
\* else is NaN.
NumberOf(s) ==
  LET signed == s # <<>> /\ s[1] \in {"-", "+"}
      body == IF signed THEN Tail(s) ELSE s
      dots == {i \in DOMAIN body : body[i] = "."}
      digits == {i \in DOMAIN body : body[i] \in DigitChars}
      dot == IF dots = {} THEN Len(body) + 1 ELSE CHOOSE i \in dots : TRUE
      int == SubSeq(body, 1, dot - 1)
      frac == SubSeq(body, dot + 1, Len(body))
      mag == DigitsVal(int) * Unit + DigitsVal(frac) * Pow10(MaxLen - Len(frac))
  IN  IF s = <<>> THEN Num(0)
      ELSE IF /\ Cardinality(dots) <= 1
              /\ digits # {}
              /\ dots \cup digits = DOMAIN body
           THEN [t |-> "number", v |-> IF signed /\ s[1] = "-" THEN -mag ELSE mag]
           ELSE NaN

\* JavaScript truthiness of a number value: NaN, 0, -0 and null are falsy.
TruthyNum(x) == x.t = "number" /\ x.v # 0

\* Variant: `Number(req.params.pageNumber) || 1`, a default page.
ParsePageParamDefaultsToOne(s) == IF TruthyNum(NumberOf(s)) THEN NumberOf(s) ELSE Num(1)

\* `Number(req.params.pageNumber) || null`
ParsePageParam(s) == IF TruthyNum(NumberOf(s)) THEN NumberOf(s) ELSE Null

\* `pageNumber === k`
StrictEq(x, k) == x.t = "number" /\ x.v = k * Unit

(***************************************************************************)
(* Instruction and schema registries, getAgentInstructions                 *)
(***************************************************************************)
Str(s) == [t |-> "string", s |-> s]
Undefined == [t |-> "undefined", s |-> ""]

\* `!x` for a string-or-undefined value
Falsy(x) == x.t = "undefined" \/ x.s = ""

passportFrontPageInstructions ==
  Str("You are an expert at extracting information from passport images (front page)")
passportBackPageInstructions ==
  Str("You are an expert at extracting information from passport's back page images")
aadhaarFirstPageInstructions ==
  Str("You are an expert at extracting information from aadhaar images (first page)")
aadhaarSecondPageInstructions ==
  Str("You are an expert at extracting information from aadhaar's second page images")
panCardInstructions ==
  Str("You are an expert at extracting information from pan card image")

\* Variant: `else` in place of `else if (pageNumber === 2)`.
getAgentInstructionsElseBack(type, pageNumber) ==
  IF type = "passport"
  THEN IF pageNumber.t = "number" /\ pageNumber.v = Unit THEN passportFrontPageInstructions
       ELSE passportBackPageInstructions
  ELSE IF type = "aadhaar"
  THEN IF pageNumber.t = "number" /\ pageNumber.v = Unit THEN aadhaarFirstPageInstructions
       ELSE aadhaarSecondPageInstructions
  ELSE Undefined

getAgentInstructions(type, pageNumber) ==
  IF type = "passport"
  THEN IF StrictEq(pageNumber, 1) THEN passportFrontPageInstructions
       ELSE IF StrictEq(pageNumber, 2) THEN passportBackPageInstructions
       ELSE Undefined
  ELSE IF type = "aadhaar"
  THEN IF StrictEq(pageNumber, 1) THEN aadhaarFirstPageInstructions
       ELSE IF StrictEq(pageNumber, 2) THEN aadhaarSecondPageInstructions
       ELSE Undefined
  ELSE Undefined

\* The zod output types: a name and the set of (string, required) fields.
passportFirstPageOutput ==
  [name |-> "passportFirstPageOutput",
   fields |-> {"passportNumber", "firstName", "lastName", "dateOfBirth",
               "passportIssuedDate", "passportExpiryDate", "passportIssuedCountry",
               "passportIssuedState", "gender", "nationality", "phoneNumber",
               "placeOfBirth"}]
passportSecondPageOutput ==
  [name |-> "passportSecondPageOutput", fields |-> {"fatherName", "motherName", "address"}]
aadhaarFirstPageOutput ==
  [name |-> "aadhaarFirstPageOutput", fields |-> {"aadhaarNumber", "name"}]
aadhaarSecondPageOutput ==
  [name |-> "aadhaarSecondPageOutput", fields |-> {"address"}]
panCardOutput ==
  [name |-> "panCardOutput", fields |-> {"panNumber", "name"}]
NoOutputType == [name |-> "", fields |-> {}]

\* `pageNumber === 1 ? passportFirstPageOutput : passportSecondPageOutput`
PassportOutputType(pageNumber) ==
  IF StrictEq(pageNumber, 1) THEN passportFirstPageOutput ELSE passportSecondPageOutput

\* `pageNumber === 1 ? aadhaarFirstPageOutput : aadhaarSecondPageOutput`
AadhaarOutputType(pageNumber) ==
  IF StrictEq(pageNumber, 1) THEN aadhaarFirstPageOutput ELSE aadhaarSecondPageOutput

\* The instruction lookups of the two paged handlers.
PassportInstructions(pageNumber) == getAgentInstructions("passport", pageNumber)
\* Variant: the aadhaar route asking for the passport instructions.
AadhaarInstructionsOfPassport(pageNumber) == getAgentInstructions("passport", pageNumber)
AadhaarInstructions(pageNumber) == getAgentInstructions("aadhaar", pageNumber)

(***************************************************************************)
(* Values exchanged with the collaborators                                 *)
(***************************************************************************)
\* req.file as multer leaves it: absent, or the uploaded image.
NoFile == [present |-> FALSE, mimetype |-> "", buffer |-> ""]
Upload == [present |-> TRUE, mimetype |-> "image/png", buffer |-> "bytes"]
Files == {NoFile, Upload}

\* `data:${image.mimetype};base64,${base64Image}`
DataUrl(image) == <<"data:", image.mimetype, ";base64,", <<"base64", image.buffer>>>>
NoUrl == <<>>

\* finalOutput of run(): an object shaped by the agent's outputType, or undefined.
NoOutput == [t |-> "undefined", fields |-> {}]
Extracted(outputType) == [t |-> "object", fields |-> outputType.fields]

\* Values a rejected await throws.
NoErr == [isError |-> FALSE, message |-> ""]
AgentThrows == {[isError |-> TRUE, message |-> "agent run failed"],
                [isError |-> FALSE, message |-> "thrown non-Error value"]}
ValidationError == [isError |-> TRUE, message |-> "ExtractedData validation failed"]
WriteError == [isError |-> TRUE, message |-> "store write failed"]
CastError == [isError |-> TRUE, message |-> "Cast failed"]

\* `error instanceof Error ? error.message : "Unknown error"`
Details(error) == IF error.isError THEN error.message ELSE "Unknown error"

NoDoc == [id |-> 0, documentType |-> "", pageNumber |-> Null, extractedData |-> NoOutput,
          imageUrl |-> NoUrl, createdAt |-> 0]

\* Schema validation run by save(): every path is required, documentType is
\* one of the enum, pageNumber is a number between 1 and 2.
Validates(doc) ==
  /\ doc.documentType \in {"passport", "aadhaar", "pan-card"}
  /\ doc.pageNumber.t = "number"
  /\ doc.pageNumber.v >= 1 * Unit
  /\ doc.pageNumber.v <= 2 * Unit
  /\ doc.extractedData.t # "undefined"
  /\ doc.imageUrl # NoUrl

(***************************************************************************)
(* State                                                                   *)
(***************************************************************************)
\* A handler that has not started, and the locals of a running one.
Idle == [pc |-> "idle", documentType |-> "", pageNumber |-> Null, dataUrl |-> NoUrl,
         instructions |-> Undefined, outputType |-> NoOutputType, doc |-> NoDoc,
         runs |-> 0, saves |-> 0, responses |-> 0]

NoResp == [kind |-> "none", rid |-> 0, status |-> 0, error |-> "", details |-> "",
           mongoId |-> 0, output |-> NoOutput, count |-> 0, docs |-> <<>>]

AbsentParam == [present |-> FALSE, s |-> <<>>]
AbsentQuery == [present |-> FALSE, s |-> ""]
NoRequest == [route |-> "none", rid |-> 0, file |-> NoFile, param |-> <<>>,
              qType |-> AbsentQuery, qPage |-> AbsentParam, id |-> <<>>]

\* `res.status(code).json({ error })` of the validation and dispatch stages
ClientError(r, code, error) ==
  [NoResp EXCEPT !.kind = "extract", !.rid = r, !.status = code, !.error = error]

\* The catch block of the three extraction handlers.
ProcessingError(r, error) ==
  [NoResp EXCEPT !.kind = "extract", !.rid = r, !.status = 500,
                 !.error = "Failed to process image", !.details = Details(error)]

\* `res.json({ message, data: finalOutput, mongoId: extractedData._id })`
Stored(r, doc) ==
  [NoResp EXCEPT !.kind = "extract", !.rid = r, !.status = 200,
                 !.output = doc.extractedData, !.mongoId = doc.id]

\* The handler has returned: its locals are gone, one response was sent.
Returned(slot) ==
  [Idle EXCEPT !.pc = "done", !.runs = slot.runs, !.saves = slot.saves,
               !.responses = slot.responses + 1]

\* `new Agent({...})` followed by the call of run(agent, ...): the handler
\* suspends until the agent settles.
Invoke(slot, documentType, pageNumber, dataUrl, instructions, outputType) ==
  [slot EXCEPT !.pc = "run", !.documentType = documentType, !.pageNumber = pageNumber,
               !.dataUrl = dataUrl, !.instructions = instructions,
               !.outputType = outputType, !.runs = slot.runs + 1]

\* Requests are taken up in the order of their numbers.
CanStart(r) ==
  /\ req[r].pc = "idle"
  /\ \A q \in Requests : q < r => req[q].pc # "idle"

(***************************************************************************)
(* POST /api/extract/passport/:pageNumber                                  *)
(***************************************************************************)
\* The two guards before any work is done: the message of the first that
\* fails, or "" when both pass.
\* Variant: the page number is checked before the image.
PassportValidationPageFirst(image, pageNumber) ==
  IF ~TruthyNum(pageNumber) THEN "Page number is required."
  ELSE IF ~image.present THEN "No image file provided."
  ELSE ""

PassportValidation(image, pageNumber) ==
  IF ~image.present THEN "No image file provided."
  ELSE IF ~TruthyNum(pageNumber) THEN "Page number is required."
  ELSE ""

PassportHandler(r, image, param) ==
  LET pageNumber == ParsePageParam(param)
      invalid == PassportValidation(image, pageNumber)
      dataUrl == DataUrl(image)
      instructions == PassportInstructions(pageNumber)
  IN  /\ CanStart(r)
      /\ received' = [NoRequest EXCEPT !.route = "passport", !.rid = r, !.file = image,
                                       !.param = param]
      /\ IF invalid # ""
         THEN /\ resp' = ClientError(r, 400, invalid)
              /\ req' = [req EXCEPT ![r] = Returned(req[r])]
         ELSE IF Falsy(instructions)
         THEN /\ resp' = ClientError(r, 400, "Invalid page number for passport.")
              /\ req' = [req EXCEPT ![r] = Returned(req[r])]
         ELSE /\ resp' = NoResp
              /\ req' = [req EXCEPT ![r] = Invoke(req[r], "passport", pageNumber, dataUrl,
                                                  instructions,
                                                  PassportOutputType(pageNumber))]
      /\ UNCHANGED <<NODE_ENV, store, nextOid, now, fnIn, fnOut>>

(***************************************************************************)
(* POST /api/extract/aadhaar/:pageNumber                                   *)
(***************************************************************************)
AadhaarValidation(image, pageNumber) ==
  IF ~image.present THEN "No image file provided."
  ELSE IF ~TruthyNum(pageNumber) THEN "Page number is required."
  ELSE ""

AadhaarHandler(r, image, param) ==
  LET pageNumber == ParsePageParam(param)
      invalid == AadhaarValidation(image, pageNumber)
      dataUrl == DataUrl(image)
      instructions == AadhaarInstructions(pageNumber)
  IN  /\ CanStart(r)
      /\ received' = [NoRequest EXCEPT !.route = "aadhaar", !.rid = r, !.file = image,
                                       !.param = param]
      /\ IF invalid # ""
         THEN /\ resp' = ClientError(r, 400, invalid)
              /\ req' = [req EXCEPT ![r] = Returned(req[r])]
         ELSE IF Falsy(instructions)
         THEN /\ resp' = ClientError(r, 400, "Invalid page number for aadhaar.")
              /\ req' = [req EXCEPT ![r] = Returned(req[r])]
         ELSE /\ resp' = NoResp
              /\ req' = [req EXCEPT ![r] = Invoke(req[r], "aadhaar", pageNumber, dataUrl,
                                                  instructions,
                                                  AadhaarOutputType(pageNumber))]
      /\ UNCHANGED <<NODE_ENV, store, nextOid, now, fnIn, fnOut>>

(***************************************************************************)
(* POST /api/extract/pan-card                                              *)
(***************************************************************************)
PanCardValidation(image) == IF ~image.present THEN "No image file provided." ELSE ""

PanCardHandler(r, image) ==
  LET invalid == PanCardValidation(image)
      dataUrl == DataUrl(image)
  IN  /\ CanStart(r)
      /\ received' = [NoRequest EXCEPT !.route = "pan-card", !.rid = r, !.file = image]
      /\ IF invalid # ""
         THEN /\ resp' = ClientError(r, 400, invalid)
              /\ req' = [req EXCEPT ![r] = Returned(req[r])]
         ELSE /\ resp' = NoResp
              /\ req' = [req EXCEPT ![r] = Invoke(req[r], "pan-card", Num(1), dataUrl,
                                                  panCardInstructions, panCardOutput)]
      /\ UNCHANGED <<NODE_ENV, store, nextOid, now, fnIn, fnOut>>

(***************************************************************************)
(* The try block shared by the three handlers: await run(), then           *)
(* new ExtractedData(...), await save(), respond; catch answers 500.       *)
(***************************************************************************)
\* `new ExtractedData({ documentType, pageNumber, extractedData, imageUrl })`:
\* the driver assigns _id at construction, save() stamps createdAt.
\* Variant: every record is built with the same _id.
NewExtractedDataSameId(slot, finalOutput, oid, t) ==
  [id |-> 1, documentType |-> slot.documentType, pageNumber |-> slot.pageNumber,
   extractedData |-> finalOutput, imageUrl |-> slot.dataUrl, createdAt |-> t]

NewExtractedData(slot, finalOutput, oid, t) ==
  [id |-> oid, documentType |-> slot.documentType, pageNumber |-> slot.pageNumber,
   extractedData |-> finalOutput, imageUrl |-> slot.dataUrl, createdAt |-> t]

\* What a settled run() hands back for an agent built with this outputType.
FinalOutputs(slot) == {Extracted(slot.outputType), NoOutput}

\* run() resolves; the handler builds the record and calls save().
RunResolves(r) ==
  /\ req[r].pc = "run"
  /\ \E finalOutput \in FinalOutputs(req[r]), t \in {now, now + 1} :
       /\ req' = [req EXCEPT ![r].pc = "save",
                             ![r].doc = NewExtractedData(req[r], finalOutput, nextOid, t),
                             ![r].saves = req[r].saves + 1]
       /\ now' = t
  /\ nextOid' = nextOid + 1
  /\ received' = NoRequest
  /\ resp' = NoResp
  /\ UNCHANGED <<NODE_ENV, store, fnIn, fnOut>>

\* Variant: a rejected run() is tried again.
RunRejectsAndRetries(r) ==
  /\ req[r].pc = "run"
  /\ req[r].runs < 3
  /\ req' = [req EXCEPT ![r].runs = req[r].runs + 1]
  /\ resp' = NoResp
  /\ received' = NoRequest
  /\ UNCHANGED <<NODE_ENV, store, nextOid, now, fnIn, fnOut>>

\* run() rejects; control passes to the catch block.
RunRejects(r) ==
  /\ req[r].pc = "run"
  /\ \E error \in AgentThrows : resp' = ProcessingError(r, error)
  /\ req' = [req EXCEPT ![r] = Returned(req[r])]
  /\ received' = NoRequest
  /\ UNCHANGED <<NODE_ENV, store, nextOid, now, fnIn, fnOut>>

\* The insert of save(): the collection gains the document.
Insert(coll, doc) == Append(coll, doc)

\* save() resolves: the document passed validation and was inserted.
SaveResolves(r) ==
  /\ req[r].pc = "save"
  /\ Validates(req[r].doc)
  /\ store' = Insert(store, req[r].doc)
  /\ resp' = Stored(r, req[r].doc)
  /\ req' = [req EXCEPT ![r] = Returned(req[r])]
  /\ received' = NoRequest
  /\ UNCHANGED <<NODE_ENV, nextOid, now, fnIn, fnOut>>

\* Variant: the write went through before save() rejected.
SaveRejectsAfterInsert(r) ==
  /\ req[r].pc = "save"
  /\ store' = Insert(store, req[r].doc)
  /\ resp' = ProcessingError(r, WriteError)
  /\ req' = [req EXCEPT ![r] = Returned(req[r])]
  /\ received' = NoRequest
  /\ UNCHANGED <<NODE_ENV, nextOid, now, fnIn, fnOut>>

\* save() rejects: validation failed, or the write did.
SaveRejects(r) ==
  /\ req[r].pc = "save"
  /\ resp' = ProcessingError(r, IF Validates(req[r].doc) THEN WriteError
                                ELSE ValidationError)
  /\ req' = [req EXCEPT ![r] = Returned(req[r])]
  /\ received' = NoRequest
  /\ UNCHANGED <<NODE_ENV, store, nextOid, now, fnIn, fnOut>>

(***************************************************************************)
(* GET /api/extracted-data                                                 *)
(***************************************************************************)
\* Query-string values `if (documentType)` / `if (pageNumber)` let through.
TruthyQuery(q) == q.present /\ q.s # ""
TruthyParam(q) == q.present /\ q.s # <<>>

\* The filter object built by the handler.
BuildQuery(qType, qPage) ==
  [hasType |-> TruthyQuery(qType), documentType |-> qType.s,
   hasPage |-> TruthyParam(qPage), pageNumber |-> NumberOf(qPage.s)]

\* find() casts the filter to the schema first and rejects (cast error)
\* when pageNumber, declared Number in the schema, is NaN.
QueryCasts(query) == query.hasPage => query.pageNumber.t = "number"

Matches(doc, query) ==
  /\ query.hasType => doc.documentType = query.documentType
  /\ query.hasPage => doc.pageNumber.v = query.pageNumber.v

Range(seq) == {seq[i] : i \in DOMAIN seq}

\* Variant: `.sort({ createdAt: 1 })`
InSortOrderAscending(a, b) == a.createdAt <= b.createdAt

\* `.sort({ createdAt: -1 })`
InSortOrder(a, b) == a.createdAt >= b.createdAt

\* `ExtractedData.find(query).sort({ createdAt: -1 })`: the matching
\* documents, each once, newest first; documents of one instant in any order.
Find(coll, query) ==
  LET hits == {d \in Range(coll) : Matches(d, query)}
      n == Cardinality(hits)
  IN  {data \in [1..n -> hits] :
         /\ \A i, j \in 1..n : i # j => data[i] # data[j]
         /\ \A i, j \in 1..n : i < j => InSortOrder(data[i], data[j])}

RetrievalError(kind, error) ==
  [NoResp EXCEPT !.kind = kind, !.status = 500, !.error = "Failed to retrieve data",
                 !.details = Details(error)]

ListHandler(qType, qPage) ==
  LET query == BuildQuery(qType, qPage)
  IN  /\ received' = [NoRequest EXCEPT !.route = "list", !.qType = qType, !.qPage = qPage]
      /\ IF QueryCasts(query)
         THEN \E data \in Find(store, query) :
                resp' = [NoResp EXCEPT !.kind = "list", !.status = 200,
                                       !.count = Len(data), !.docs = data]
         ELSE resp' = RetrievalError("list", CastError)
      /\ UNCHANGED <<NODE_ENV, store, nextOid, now, req, fnIn, fnOut>>

(***************************************************************************)
(* GET /api/extracted-data/:id                                             *)
(***************************************************************************)
HexChars == DigitChars \cup {"a", "b", "c", "d", "e", "f"}

HexVal(c) ==
  CASE c = "a" -> 10 [] c = "b" -> 11 [] c = "c" -> 12 [] c = "d" -> 13
    [] c = "e" -> 14 [] c = "f" -> 15 [] OTHER -> DigitVal(c)

RECURSIVE HexDigitsVal(_)
HexDigitsVal(s) ==
  IF s = <<>> THEN 0
  ELSE 16 * HexDigitsVal(SubSeq(s, 1, Len(s) - 1)) + HexVal(s[Len(s)])

\* An ObjectId in JSON and in a URL: 24 hexadecimal characters.
ToHexString(oid) ==
  [i \in 1..24 |->
     IF i = 24 THEN CHOOSE c \in HexChars : HexVal(c) = oid % 16
     ELSE IF i = 23 THEN CHOOSE c \in HexChars : HexVal(c) = (oid \div 16) % 16
     ELSE "0"]

\* The string names an ObjectId only if it has that form; findById rejects
\* (cast error) for the others asked for here, which are shorter than any
\* form an ObjectId can take.
IsObjectIdString(s) == Len(s) = 24 /\ \A i \in DOMAIN s : s[i] \in HexChars

\* `ExtractedData.findById(id)`: the documents with that _id (none or one).
FindById(coll, s) ==
  SelectSeq(coll, LAMBDA d : d.id = HexDigitsVal(s))

GetHandler(id) ==
  /\ received' = [NoRequest EXCEPT !.route = "get", !.id = id]
  /\ IF ~IsObjectIdString(id)
     THEN resp' = RetrievalError("get", CastError)
     ELSE IF FindById(store, id) = <<>>
     THEN resp' = [NoResp EXCEPT !.kind = "get", !.status = 404, !.error = "Data not found"]
     ELSE resp' = [NoResp EXCEPT !.kind = "get", !.status = 200,
                                 !.docs = <<Head(FindById(store, id))>>]
  /\ UNCHANGED <<NODE_ENV, store, nextOid, now, req, fnIn, fnOut>>

(***************************************************************************)
(* Specification of the server: overlapping extraction requests            *)
(***************************************************************************)
\* Page parameters the overlapping requests carry: a page of the document,
\* one that is out of range and one that parses to zero.
PassportParams == {<<"1">>, <<"3">>, <<"0">>}
AadhaarParams == {<<"2">>, <<"3">>, <<"0">>}

NoCall == [type |-> "", s |-> <<>>]
NoResult == [called |-> FALSE, pageNumber |-> Null, instructions |-> Undefined]

Init ==
  /\ NODE_ENV \in {"production", "development"}
  /\ store = <<>>
  /\ nextOid = 1
  /\ now = 0
  /\ req = [r \in Requests |-> Idle]
  /\ received = NoRequest
  /\ resp = NoResp
  /\ fnIn = NoCall
  /\ fnOut = NoResult

Next ==
  \/ \E r \in Requests, image \in Files, param \in PassportParams :
       PassportHandler(r, image, param)
  \/ \E r \in Requests, image \in Files, param \in AadhaarParams :
       AadhaarHandler(r, image, param)
  \/ \E r \in Requests, image \in Files : PanCardHandler(r, image)
  \/ \E r \in Requests : RunResolves(r)
  \/ \E r \in Requests : RunRejects(r)
  \/ \E r \in Requests : SaveResolves(r)
  \/ \E r \in Requests : SaveRejects(r)

Spec == Init /\ [][Next]_vars

(***************************************************************************)
(* Specification of overlapping passport requests, with the agent and the  *)
(* store settling every call made to them                                  *)
(***************************************************************************)
NextPassport ==
  \/ \E r \in Requests, image \in Files, param \in PassportParams :
       PassportHandler(r, image, param)
  \/ \E r \in Requests : RunResolves(r)
  \/ \E r \in Requests : RunRejects(r)
  \/ \E r \in Requests : SaveResolves(r)
  \/ \E r \in Requests : SaveRejects(r)

\* run() and save() return promises that the agent service and the
\* database driver settle, one way or the other.
Fairness ==
  \A r \in Requests :
    /\ WF_vars(RunResolves(r) \/ RunRejects(r))
    /\ WF_vars(SaveResolves(r) \/ SaveRejects(r))

FairSpec == Init /\ [][NextPassport]_vars /\ Fairness

(***************************************************************************)
(* Specification of one extraction request with any page parameter         *)
(***************************************************************************)
Strings == UNION {[1..n -> Alphabet] : n \in 0..MaxLen}
\* Express matches :pageNumber against a non-empty path segment.
RouteParams == Strings \ {<<>>}

NextOne ==
  \/ req[1].pc = "idle" /\ \E image \in Files, param \in RouteParams :
       PassportHandler(1, image, param)
  \/ req[1].pc = "idle" /\ \E image \in Files, param \in RouteParams :
       AadhaarHandler(1, image, param)
  \/ \E image \in Files : PanCardHandler(1, image)
  \/ RunResolves(1)
  \/ RunRejects(1)
  \/ SaveResolves(1)
  \/ SaveRejects(1)

SpecOne == Init /\ [][NextOne]_vars

(***************************************************************************)
(* Specification of the query endpoints over a store filled by             *)
(* extraction requests handled one after the other                         *)
(***************************************************************************)
TypeQueries == {AbsentQuery} \cup
               {[present |-> TRUE, s |-> t] : t \in {"", "passport", "pan-card", "visa"}}
PageQueries == {AbsentParam} \cup
               {[present |-> TRUE, s |-> p] :
                  p \in {<<>>, <<"1">>, <<"2">>, <<"0">>, <<"a">>, <<"2", ".", "0">>}}
\* Identifiers asked for: every one the store may hold, one it never holds,
\* and two strings that are no ObjectId.
IdParams == {ToHexString(k) : k \in 1..(MaxReq + 1)} \cup {<<"a", "b", "c">>, <<"1">>}

NoneInFlight == \A r \in Requests : req[r].pc \in {"idle", "done"}

NextQuery ==
  \/ \E r \in Requests, param \in {<<"1">>, <<"2">>} :
       NoneInFlight /\ PassportHandler(r, Upload, param)
  \/ \E r \in Requests : NoneInFlight /\ PanCardHandler(r, Upload)
  \/ \E r \in Requests : RunResolves(r)
  \/ \E r \in Requests : SaveResolves(r)
  \/ \E qType \in TypeQueries, qPage \in PageQueries : ListHandler(qType, qPage)
  \/ \E id \in IdParams : GetHandler(id)

\* The query handlers do not read NODE_ENV.
InitQuery == Init /\ NODE_ENV = "production"

SpecQuery == InitQuery /\ [][NextQuery]_vars

(***************************************************************************)
(* Specification of the dispatch functions alone                           *)
(***************************************************************************)
DocumentTypes == {"passport", "aadhaar", "pan-card", "visa"}

\* Number(param) || null, then getAgentInstructions(type, pageNumber)
Resolve ==
  /\ ~fnOut.called
  /\ fnOut' = [called |-> TRUE, pageNumber |-> ParsePageParam(fnIn.s),
               instructions |-> getAgentInstructions(fnIn.type, NumberOf(fnIn.s))]
  /\ UNCHANGED <<NODE_ENV, store, nextOid, now, req, received, resp, fnIn>>

InitResolve ==
  /\ NODE_ENV = "development"
  /\ store = <<>>
  /\ nextOid = 1
  /\ now = 0
  /\ req = [r \in Requests |-> Idle]
  /\ received = NoRequest
  /\ resp = NoResp
  /\ fnIn \in [type : DocumentTypes, s : Strings]
  /\ fnOut = NoResult

SpecResolve == InitResolve /\ [][Resolve]_vars

(***************************************************************************)
(* Properties                                                              *)
(***************************************************************************)
ExtractRoutes == {"passport", "aadhaar", "pan-card"}
PagedRoutes == {"passport", "aadhaar"}

\* The stored documents a hexadecimal identifier string names.
Identified(id) == {d \in Range(store) : ToHexString(d.id) = id}

\* C1: an identifier given to GET /api/extracted-data/:id that names no
\* stored record, parseable as a record id or not, is answered 404 and
\* never 500.
C1_UnknownIdIsNotFound ==
  (received.route = "get" /\ Identified(received.id) = {})
    => (resp.status = 404 /\ resp.status # 500)

\* Messages of the errors the agent and the store raise.
UnderlyingMessages ==
  {e.message : e \in {x \in AgentThrows : x.isError} \cup {ValidationError, WriteError}}

\* C2: a failed agent call or store write is answered 500, and in
\* production mode that response carries no underlying error message.
C2_ProductionHidesErrorMessage ==
  (resp.kind = "extract" /\ resp.status >= 500)
    => /\ resp.status = 500
       /\ NODE_ENV = "production" => resp.details \notin UnderlyingMessages

\* C3: the store changes only in the step in which the save of a request
\* whose agent call delivered an output succeeds, and then gains exactly
\* that request's record; a request answered with an error (validation,
\* dispatch, agent failure, store failure) leaves the store as it was.
C3_RecordOnlyAfterSuccess ==
  [][/\ store' # store =>
          \E r \in Requests :
            /\ req[r].pc = "save"
            /\ req[r].runs = 1
            /\ req[r].doc.extractedData.t = "object"
            /\ store' = Append(store, req[r].doc)
            /\ resp' = Stored(r, req[r].doc)
     /\ (resp'.kind = "extract" /\ resp'.status # 200) => store' = store
     /\ \A i \in DOMAIN store : i \in DOMAIN store' /\ store'[i] = store[i]
    ]_vars

\* C3 witness: a request failed with a server error while the store holds
\* the record of an earlier successful one.
C3_Witness ==
  /\ resp.kind = "extract"
  /\ resp.status = 500
  /\ Len(store) = 1
  /\ \E r \in Requests : req[r].pc = "done" /\ req[r].saves = 1 /\ r = resp.rid

\* C4: a success response goes with exactly one new record, of the
\* request's document type and page (pan-card: page 1); mongoId is that
\* record's identifier, looking it up by its hexadecimal form finds that
\* record, and no earlier record has the same identifier.
C4_SuccessAddsOneRecord ==
  [][(resp'.kind = "extract" /\ resp'.status = 200) =>
       LET r == resp'.rid
           new == store'[Len(store')]
       IN  /\ Len(store') = Len(store) + 1
           /\ SubSeq(store', 1, Len(store)) = store
           /\ new.documentType = req[r].documentType
           /\ new.pageNumber = req[r].pageNumber
           /\ new.documentType = "pan-card" => new.pageNumber = Num(1)
           /\ new.documentType \in PagedRoutes => new.pageNumber \in {Num(1), Num(2)}
           /\ resp'.mongoId = new.id
           /\ IsObjectIdString(ToHexString(resp'.mongoId))
           /\ FindById(store', ToHexString(resp'.mongoId)) = <<new>>
           /\ \A d \in Range(store) : d.id # new.id
    ]_vars

\* C4 witness: two identical uploads were both stored, under two identifiers.
C4_Witness ==
  /\ resp.kind = "extract"
  /\ resp.status = 200
  /\ Len(store) = 2
  /\ store[1].documentType = store[2].documentType
  /\ store[1].pageNumber = store[2].pageNumber
  /\ store[1].imageUrl = store[2].imageUrl
  /\ store[1].id # store[2].id

\* The (document type, page) pairs the spec calls supported.
IsPage(x, k) == x.t = "number" /\ x.v = k * Unit
SupportedPairs == {<<"passport", 1>>, <<"passport", 2>>, <<"aadhaar", 1>>,
                   <<"aadhaar", 2>>, <<"pan-card", 1>>}
Supported(type, x) == \E pair \in SupportedPairs : pair[1] = type /\ IsPage(x, pair[2])

ExpectedInstructions(type, k) ==
  CASE type = "passport" /\ k = 1 -> passportFrontPageInstructions
    [] type = "passport" /\ k = 2 -> passportBackPageInstructions
    [] type = "aadhaar" /\ k = 1 -> aadhaarFirstPageInstructions
    [] type = "aadhaar" /\ k = 2 -> aadhaarSecondPageInstructions
ExpectedOutput(type, k) ==
  CASE type = "passport" /\ k = 1 -> passportFirstPageOutput
    [] type = "passport" /\ k = 2 -> passportSecondPageOutput
    [] type = "aadhaar" /\ k = 1 -> aadhaarFirstPageOutput
    [] type = "aadhaar" /\ k = 2 -> aadhaarSecondPageOutput

C6_MissingImageComesFirst ==
  [][(received'.route \in ExtractRoutes /\ ~received'.file.present) =>
       /\ resp' = ClientError(received'.rid, 400, "No image file provided.")
       /\ req'[received'.rid].pc = "done"
       /\ req'[received'.rid].runs = 0
       /\ req'[received'.rid].saves = 0
       /\ store' = store
       /\ nextOid' = nextOid
    ]_vars

\* C6 witness: the image is missing and the page parameter is invalid too.
C6_Witness ==
  /\ received.route = "passport"
  /\ ~received.file.present
  /\ received.param = <<"a">>
  /\ resp.status = 400

\* C7: with an image, a page parameter parsing to zero or to no number is
\* answered 400 "Page number is required."; one parsing to a non-zero
\* number other than 1 and 2 is answered 400 "Invalid page number for
\* <type>."; neither reaches the agent or the store; and a request that
\* does reach the agent carries the very page its parameter parses to.
C7_PageNumberErrors ==
  [][(received'.route \in PagedRoutes /\ received'.file.present) =>
       LET r == received'.rid
           x == NumberOf(received'.param)
           rejected == /\ resp'.kind = "extract" /\ resp'.status = 400
                       /\ req'[r].pc = "done" /\ req'[r].runs = 0 /\ req'[r].saves = 0
                       /\ store' = store /\ nextOid' = nextOid
       IN  /\ (x.t = "nan" \/ x.v = 0) =>
                rejected /\ resp'.error = "Page number is required."
           /\ (x.t = "number" /\ x.v # 0 /\ ~IsPage(x, 1) /\ ~IsPage(x, 2)) =>
                /\ rejected
                /\ received'.route = "passport" =>
                     resp'.error = "Invalid page number for passport."
                /\ received'.route = "aadhaar" =>
                     resp'.error = "Invalid page number for aadhaar."
           /\ req'[r].pc = "run" =>
                /\ IsPage(x, 1) \/ IsPage(x, 2)
                /\ req'[r].pageNumber = x
    ]_vars

\* C7 witness: page 1.2 of a passport was refused as an invalid page.
C7_Witness ==
  /\ received.route = "passport"
  /\ received.file.present
  /\ received.param = <<"1", ".", "2">>
  /\ resp.error = "Invalid page number for passport."

\* The records a listing with these query-string filters is to return: an
\* absent or empty filter selects everything, a documentType filter the
\* records of that type, a pageNumber filter the records of that page.
Selected(qType, qPage) ==
  {d \in Range(store) :
     /\ (qType.present /\ qType.s # "") => d.documentType = qType.s
     /\ (qPage.present /\ qPage.s # <<>>) => d.pageNumber = NumberOf(qPage.s)}

\* A page filter that is a number (or is left out).
NumericFilter(qPage) == (qPage.present /\ qPage.s # <<>>) => NumberOf(qPage.s).t = "number"

Rank(pc) == CASE pc = "idle" -> 0 [] pc = "run" -> 1 [] pc = "save" -> 2 [] pc = "done" -> 3

\* C9: a request moves forward only (handler entry, agent call, store
\* write, response), calls the agent at most once and the store at most
\* once, answers exactly once and then does nothing more; a step of one
\* request leaves every other request's locals alone; an error response
\* skips the later stages; and when agent and store settle their calls,
\* every request that was taken up is answered.
C9_StagesInOrder ==
  /\ [](\A r \in Requests :
          /\ req[r].runs <= 1
          /\ req[r].saves <= req[r].runs
          /\ req[r].responses = (IF req[r].pc = "done" THEN 1 ELSE 0)
          /\ req[r].pc = "run" => req[r].runs = 1 /\ req[r].saves = 0
          /\ req[r].pc = "save" => req[r].saves = 1)
  /\ [][\A r \in Requests :
          /\ Rank(req'[r].pc) >= Rank(req[r].pc)
          /\ req[r].pc = "run" => req'[r].pc \in {"run", "save", "done"}
          /\ req'[r].pc = "save" => req[r].pc \in {"run", "save"}
          /\ req[r].pc = "done" => req'[r] = req[r]
          /\ req'[r].runs >= req[r].runs /\ req'[r].saves >= req[r].saves
          /\ req'[r] # req[r] => \A q \in Requests \ {r} : req'[q] = req[q]
          /\ (resp'.kind = "extract" /\ resp'.rid = r) =>
               /\ req[r].pc # "done" /\ req'[r].pc = "done"
               /\ req'[r].runs = req[r].runs /\ req'[r].saves = req[r].saves
               /\ resp'.status # 200 => store' = store
          /\ (req'[r].pc = "done" /\ req[r].pc # "done") =>
               resp'.kind = "extract" /\ resp'.rid = r
       ]_vars
  /\ \A r \in Requests : (req[r].pc \in {"run", "save"}) ~> (req[r].pc = "done")

\* C9 witness: two requests are under way at once, one waiting for the
\* store and one for the agent.
C9_Witness ==
  /\ req[1].pc = "save"
  /\ req[2].pc = "run"

\* C10: a request waiting for the agent passed it the instructions and the
\* schema of its own route's document type and of the page its parameter
\* parses to, which is 1 or 2; the second-page schema goes with page 2 only.
C10_InstructionsMatchSchema ==
  \A r \in Requests :
    (req[r].pc = "run" /\ received.rid = r) =>
      LET x == NumberOf(received.param)
      IN  /\ req[r].documentType = received.route
          /\ received.route \in PagedRoutes =>
               /\ IsPage(x, 1) \/ IsPage(x, 2)
               /\ \A k \in {1, 2} :
                    IsPage(x, k) =>
                      /\ req[r].instructions = ExpectedInstructions(received.route, k)
                      /\ req[r].outputType = ExpectedOutput(received.route, k)
               /\ req[r].outputType.name \in {"passportSecondPageOutput",
                                              "aadhaarSecondPageOutput"} => IsPage(x, 2)
          /\ received.route = "pan-card" =>
               /\ req[r].instructions = panCardInstructions
               /\ req[r].outputType = panCardOutput

\* C10 witness: the aadhaar route called the agent for page 2.
C10_Witness ==
  /\ received.route = "aadhaar"
  /\ received.param = <<"2">>
  /\ req[1].pc = "run"
  /\ req[1].instructions = aadhaarSecondPageInstructions
  /\ req[1].outputType = aadhaarSecondPageOutput

====
